---- MODULE Spec2Model ----
(***************************************************************************)
(* State-machine model of the page controllers of homebound-community:     *)
(*   StickyNavController  (sticky-nav.ts)                                   *)
(*   GalleryController    (gallery.ts)                                      *)
(*   AccordionController  (accordion.ts)                                    *)
(* Every handler the controllers register (click, intersection batch,      *)
(* animation frame, mutation, transitionend, keydown, hover) is one action. *)
(* The DOM the handlers read is part of the state; it is chosen in Init.    *)
(***************************************************************************)
EXTENDS Integers, Sequences, FiniteSets, TLC

VARIABLES
    \* ---- DOM read by StickyNavController
    domLinks,        \* dev-target of every .tab-links[dev-target], document order
    linkActive,      \* linkActive[i]: element i carries the class is-active
    domSections,     \* ids of the section elements present in the document
    \* ---- StickyNavController fields
    links,           \* this.links (indexes into domLinks)
    observer,        \* this.observer: NoObserver or a live observer and its targets
    visibleSections, \* this.visibleSections
    \* ---- event loop, StickyNavController
    navInited,       \* init() has been called
    navFrame,        \* the requestAnimationFrame callback of init() is pending
    lastNav,         \* what the handler that ran last did
    \* ---- mobile strip centring (scrollLinkIntoStrip)
    layout,          \* the layout the call measures
    stripReq,        \* the strip.scrollTo request of the last call
    \* ---- AccordionController
    accItems,        \* number of [dev-target="accordion-item"] elements
    accActive,       \* the items carrying the class is-active
    accMarkup,       \* the items that carried it in the markup
    accInited,       \* init() has been called
    lastAcc,         \* what the handler that ran last did
    \* ---- DOM read by GalleryController
    domContainers,   \* the containerClass selectors that match an element
    domTriggers,     \* the trigger dev-targets carried by some element
    domImgs,         \* per container: dev-target of each img inside, in order
    overlays,        \* every overlay element built so far, by id (1, 2, ...)
    bodyOverflow,    \* document.body.style.overflow
    \* ---- GalleryController fields
    overlay,         \* this.overlay: NoOverlay or an overlay id
    swiper,          \* this.swiper: NoOverlay or the id of the overlay it was built for
    thumbsSwiper,    \* this.thumbsSwiper, likewise
    caches,          \* this.caches: trigger -> cached images
    observers,       \* this.observers: the containers with a MutationObserver
    \* ---- event loop, GalleryController
    galInited,       \* init() has been called
    galFrames,       \* pending requestAnimationFrame callbacks of open()
    shown,           \* the overlay the last open() built, until a close is asked
    lastGal          \* what the handler that ran last did

navVars == <<domLinks, linkActive, domSections, links, observer,
             visibleSections, navInited, navFrame, lastNav>>

stripVars == <<layout, stripReq>>

accVars == <<accItems, accActive, accMarkup, accInited, lastAcc>>

galVars == <<domContainers, domTriggers, domImgs, overlays, bodyOverflow,
             overlay, swiper, thumbsSwiper, caches, observers,
             galInited, galFrames, shown, lastGal>>

vars == <<navVars, stripVars, accVars, galVars>>

\* a handler of one controller leaves the other controllers alone
NavOnly == UNCHANGED <<stripVars, accVars, galVars>>
StripOnly == UNCHANGED <<navVars, accVars, galVars>>
AccOnly == UNCHANGED <<navVars, stripVars, galVars>>
GalOnly == UNCHANGED <<navVars, stripVars, accVars>>

----------------------------------------------------------------------------
\* Bounds of the model
MaxLinks == 2
MaxBatch == 2
MaxPx == 3
MaxBorder == 1
MaxItems == 3
MaxImgs == 2
MaxOverlays == 2
MaxListeners == 2

----------------------------------------------------------------------------
\* Generic helpers

Undefined == "<undefined>"

\* JavaScript truthiness of a string-or-undefined value: if (v) ...
AlwaysTruthy(v) == TRUE

Truthy(v) == v # Undefined /\ v # ""

Min(a, b) == IF a < b THEN a ELSE b
Max(a, b) == IF a > b THEN a ELSE b

\* Array.prototype.find with a membership predicate: the first element of
\* seq that lies in S (scanning from index 1); `none` when there is none.
RECURSIVE FindIndex(_, _, _)
FindIndex(seq, S, i) ==
    IF i > Len(seq) THEN 0
    ELSE IF seq[i] \in S THEN i
    ELSE FindIndex(seq, S, i + 1)

FindIn(seq, S, none) ==
    LET k == FindIndex(seq, S, 1) IN IF k = 0 THEN none ELSE seq[k]

SeqsUpTo(S, n) == UNION {[1..k -> S] : k \in 0..n}

----------------------------------------------------------------------------
\* StickyNavController: constants

sectionMap ==
    [t \in {"overview", "floor-plans", "amentities", "personalisation",
            "browse-homes", "process"} |->
        CASE t = "overview" -> "overview-section"
          [] t = "floor-plans" -> "floor-plans-section"
          [] t = "amentities" -> "amentities-section"
          [] t = "personalisation" -> "personalization-section"
          [] t = "browse-homes" -> "lots-section"
          [] t = "process" -> "process-section"]

sectionOrder ==
    <<"overview", "floor-plans", "amentities", "personalisation", "browse-homes">>

MobileBreakpoint == 767

\* this.sectionMap[target]
SectionMapLookup(target) ==
    IF target \in DOMAIN sectionMap THEN sectionMap[target] ELSE Undefined

\* ---- the DOM the model draws from
SectionIds == {sectionMap[t] : t \in DOMAIN sectionMap}
\* dev-target values a nav link may carry: two targets of sectionOrder, a
\* name with no table entry, and the empty attribute.
LinkTargets == {"overview", "floor-plans", "contact", ""}
\* the pages the model draws from: every mapped section present, or the
\* floor-plans section absent
DomSectionSets == {SectionIds, SectionIds \ {"floor-plans-section"}}
InnerWidths == {MobileBreakpoint, MobileBreakpoint + 1}

\* this.observer = null; a live observer carries the set of observed ids
NoObserver == [live |-> FALSE, targets |-> {}]
NoLink == 0

\* console.error(...): a message and its interpolated argument
Diag(msg, arg) == [msg |-> msg, arg |-> arg]

Idle == [kind |-> "none", link |-> NoLink, applied |-> Undefined,
         scrolledTo |-> Undefined, centred |-> {}, logged |-> {},
         degraded |-> {}, batch |-> 0]

----------------------------------------------------------------------------
\* StickyNavController: methods

\* getDevTargetBySectionId: sectionOrder.find(key => sectionMap[key] === id) ?? null
getDevTargetBySectionId(sectionId) ==
    FindIn(sectionOrder, {k \in DOMAIN sectionMap : sectionMap[k] = sectionId}, Undefined)

\* setActiveLink(targetName): classList.toggle('is-active', isActive) on
\* every link of this.links
MatchingLinks(targetName) ==
    {links[k] : k \in {j \in DOMAIN links : domLinks[links[j]] = targetName}}

setActiveLinkAddOnly(targetName) ==
    [i \in DOMAIN linkActive |->
        IF i \in {links[k] : k \in DOMAIN links}
        THEN linkActive[i] \/ domLinks[i] = targetName
        ELSE linkActive[i]]

setActiveLinkDeferred(targetName) == linkActive

setActiveLink(targetName) ==
    [i \in DOMAIN linkActive |->
        IF i \in {links[k] : k \in DOMAIN links}
        THEN domLinks[i] = targetName
        ELSE linkActive[i]]

\* entries.forEach(...) of the observer callback, entry by entry
RECURSIVE ApplyEntriesRawIds(_, _)
ApplyEntriesRawIds(vis, entries) ==
    IF entries = <<>> THEN vis
    ELSE IF Head(entries).isIntersecting
         THEN ApplyEntriesRawIds(vis \cup {Head(entries).id}, Tail(entries))
         ELSE ApplyEntriesRawIds(vis \ {Head(entries).id}, Tail(entries))

RECURSIVE ApplyEntries(_, _)
ApplyEntries(vis, entries) ==
    IF entries = <<>> THEN vis
    ELSE LET entry == Head(entries)
             devTarget == getDevTargetBySectionId(entry.id)
         IN  IF ~Truthy(devTarget) THEN ApplyEntries(vis, Tail(entries))
             ELSE IF entry.isIntersecting
                  THEN ApplyEntries(vis \cup {devTarget}, Tail(entries))
                  ELSE ApplyEntries(vis \ {devTarget}, Tail(entries))

\* sectionOrder.find(t => visibleSections.has(t))
ActiveTargetLast(vis) ==
    LET idx == {i \in DOMAIN sectionOrder : sectionOrder[i] \in vis}
    IN  IF idx = {} THEN Undefined
        ELSE sectionOrder[CHOOSE i \in idx : \A j \in idx : j <= i]

ActiveTarget(vis) == FindIn(sectionOrder, vis, Undefined)

\* the observer callback: the target it hands to setActiveLink, if any.
\* Recomputed after every entry, the last target found would be applied.
RECURSIVE BatchTargetPerEntry(_, _)
BatchTargetPerEntry(vis, entries) ==
    IF entries = <<>> THEN Undefined
    ELSE LET after == ApplyEntries(vis, <<Head(entries)>>)
             later == BatchTargetPerEntry(after, Tail(entries))
         IN  IF Truthy(later) THEN later ELSE ActiveTarget(after)

BatchTarget(vis, entries) == ActiveTarget(ApplyEntries(vis, entries))

\* document.getElementById(id) finds an element
getElementByIdAlways(id) == TRUE

getElementById(id) == id \in domSections

\* the frame callback of init(): links.find(l => l has is-active) ?? links[0]
InitialActiveFirst == IF Len(links) > 0 THEN links[1] ELSE NoLink

InitialActive ==
    LET found == FindIn(links, {i \in DOMAIN linkActive : linkActive[i]}, NoLink)
    IN  IF found # NoLink THEN found
        ELSE IF Len(links) > 0 THEN links[1] ELSE NoLink

----------------------------------------------------------------------------
\* StickyNavController: initial state (after construction, before init())

NavInit ==
    /\ domLinks \in SeqsUpTo(LinkTargets, MaxLinks)
    /\ linkActive \in [DOMAIN domLinks -> BOOLEAN]
    /\ domSections \in DomSectionSets
    /\ links = <<>>
    /\ observer = NoObserver
    /\ visibleSections = {}
    /\ navInited = FALSE
    /\ navFrame = FALSE
    /\ lastNav = Idle

----------------------------------------------------------------------------
\* StickyNavController: actions

\* init(): collect the links, register the click handlers, create the
\* observer and observe the mapped sections, schedule the frame callback.
nav_init ==
    /\ NavOnly
    /\ ~navInited
    /\ navInited' = TRUE
    /\ links' = [i \in DOMAIN domLinks |-> i]
    /\ IF Len(domLinks) = 0
       THEN /\ lastNav' = [Idle EXCEPT !.kind = "init",
                              !.logged = {Diag("No tab links found.", "")},
                              !.degraded = {Diag("No tab links found.", "")}]
            /\ UNCHANGED <<observer, navFrame>>
       ELSE LET wanted == {sid \in {SectionMapLookup(sectionOrder[i]) :
                                        i \in DOMAIN sectionOrder} : Truthy(sid)}
                absent == wanted \ domSections
            IN  /\ observer' = [live |-> TRUE, targets |-> wanted \cap domSections]
                /\ navFrame' = TRUE
                /\ lastNav' = [Idle EXCEPT !.kind = "init",
                       !.logged = {Diag("Section not found in DOM.", s) : s \in absent},
                       !.degraded = {Diag("Section not found in DOM.", s) : s \in absent}]
    /\ UNCHANGED <<domLinks, linkActive, domSections,
                   visibleSections>>

\* the requestAnimationFrame callback of init()
nav_frame ==
    /\ NavOnly
    /\ navFrame
    /\ navFrame' = FALSE
    /\ LET initialActive == InitialActive
       IN  IF initialActive # NoLink
           THEN /\ linkActive' = [linkActive EXCEPT ![initialActive] = TRUE]
                /\ lastNav' = [Idle EXCEPT !.kind = "frame", !.link = initialActive,
                                  !.centred = {initialActive}]
           ELSE /\ lastNav' = [Idle EXCEPT !.kind = "frame"]
                /\ UNCHANGED linkActive
    /\ UNCHANGED <<domLinks, domSections, links, observer,
                   visibleSections, navInited>>

\* the click handler of link i (registered by setupClickHandlers)
nav_click(i) ==
    /\ NavOnly
    /\ i \in {links[k] : k \in DOMAIN links}
    /\ LET target == domLinks[i]
           sectionId == SectionMapLookup(target)
       IN  IF ~Truthy(target)
           THEN /\ lastNav' = [Idle EXCEPT !.kind = "click", !.link = i,
                                  !.degraded = {Diag("no target", "")}]
                /\ UNCHANGED linkActive
           ELSE IF ~Truthy(sectionId)
           THEN /\ lastNav' = [Idle EXCEPT !.kind = "click", !.link = i,
                                  !.degraded = {Diag("unmapped target", target)}]
                /\ UNCHANGED linkActive
           ELSE IF ~getElementById(sectionId)
           THEN /\ lastNav' = [Idle EXCEPT !.kind = "click", !.link = i,
                                  !.logged = {Diag("Section not found.", sectionId)},
                                  !.degraded = {Diag("Section not found.", sectionId)}]
                /\ UNCHANGED linkActive
           ELSE /\ linkActive' = setActiveLink(target)
                /\ lastNav' = [Idle EXCEPT !.kind = "click", !.link = i,
                                  !.applied = target,
                                  !.scrolledTo = sectionId,
                                  !.centred = MatchingLinks(target)]
    /\ UNCHANGED <<domLinks, domSections, links, observer,
                   visibleSections, navInited, navFrame>>

\* the IntersectionObserver callback on one batch of entries
nav_intersect(entries) ==
    /\ NavOnly
    /\ observer.live
    /\ entries # <<>>
    /\ \A k \in DOMAIN entries : entries[k].id \in observer.targets
    /\ LET vis == ApplyEntries(visibleSections, entries)
           activeTarget == BatchTarget(visibleSections, entries)
       IN  /\ visibleSections' = vis
           /\ IF Truthy(activeTarget)
              THEN /\ linkActive' = setActiveLink(activeTarget)
                   /\ lastNav' = [Idle EXCEPT !.kind = "batch",
                                     !.batch = Len(entries),
                                     !.applied = activeTarget,
                                     !.centred = MatchingLinks(activeTarget)]
              ELSE /\ lastNav' = [Idle EXCEPT !.kind = "batch",
                                     !.batch = Len(entries)]
                   /\ UNCHANGED linkActive
    /\ UNCHANGED <<domLinks, domSections, links, observer,
                   navInited, navFrame>>

\* destroy()
nav_destroyKeepsVisible ==
    /\ NavOnly
    /\ observer' = NoObserver
    /\ lastNav' = [Idle EXCEPT !.kind = "destroy"]
    /\ UNCHANGED <<domLinks, linkActive, domSections, links, visibleSections,
                   navInited, navFrame>>

nav_destroy ==
    /\ NavOnly
    /\ observer' = NoObserver
    /\ visibleSections' = {}
    /\ lastNav' = [Idle EXCEPT !.kind = "destroy"]
    /\ UNCHANGED <<domLinks, linkActive, domSections,
                   links, navInited, navFrame>>

Entries(targets) == [id : targets, isIntersecting : BOOLEAN]

NavIdle ==
    /\ domLinks = <<>>
    /\ linkActive = <<>>
    /\ domSections = SectionIds
    /\ links = <<>>
    /\ observer = NoObserver
    /\ visibleSections = {}
    /\ navInited = FALSE
    /\ navFrame = FALSE
    /\ lastNav = Idle

NavNext ==
    \/ nav_init
    \/ nav_frame
    \/ \E i \in 1..MaxLinks : nav_click(i)
    \/ \E entries \in SeqsUpTo(Entries(observer.targets), MaxBatch) :
          nav_intersect(entries)
    \/ nav_destroy

----------------------------------------------------------------------------
\* Mobile strip centring: scrollLinkIntoStrip as a function of the layout.
\* Positions are kept doubled (left2 = 2 * left) so that offsetWidth / 2
\* stays exact.

NoRequest == [build |-> "none", called |-> FALSE, left2 |-> 0]

stripOffsetWidth(l) == l.stripClient + l.stripBorder

\* 2 * (link.offsetLeft + link.offsetWidth / 2 - strip.offsetWidth / 2)
targetScrollLeft2(l) == 2 * l.offsetLeft + l.linkWidth - stripOffsetWidth(l)

\* strip.scrollWidth - strip.offsetWidth
maxScroll(l) == l.scrollWidth - stripOffsetWidth(l)

\* sticky-nav.ts: clamped with Math.min(Math.max(0, target), maxScroll)
scrollLinkIntoStrip(l) ==
    IF l.innerWidth > MobileBreakpoint THEN NoRequest
    ELSE IF ~l.stripFound THEN NoRequest
    ELSE [build |-> "source", called |-> TRUE,
          left2 |-> Min(Max(0, targetScrollLeft2(l)), 2 * maxScroll(l))]

\* the bundled build of the same method: strip.scrollTo({left: targetScrollLeft})
scrollLinkIntoStripBundled(l) ==
    IF l.innerWidth > MobileBreakpoint THEN NoRequest
    ELSE IF ~l.stripFound THEN NoRequest
    ELSE [build |-> "bundled", called |-> TRUE, left2 |-> targetScrollLeft2(l)]

\* The layouts: the strip's scroll width is at least its client width, its
\* offset width is the client width plus its borders, and the link lies
\* inside the strip's content.
Layouts ==
    {l \in [innerWidth : InnerWidths, stripFound : BOOLEAN,
             offsetLeft : 0..MaxPx, linkWidth : 1..MaxPx,
             stripClient : 1..MaxPx, stripBorder : 0..MaxBorder,
             scrollWidth : 1..MaxPx] :
        /\ l.scrollWidth >= l.stripClient
        /\ l.offsetLeft + l.linkWidth <= l.scrollWidth}

StripInit ==
    /\ layout \in Layouts
    /\ stripReq = NoRequest

StripIdle ==
    /\ layout = [innerWidth |-> MobileBreakpoint, stripFound |-> FALSE,
                 offsetLeft |-> 0, linkWidth |-> 1, stripClient |-> 1,
                 stripBorder |-> 0, scrollWidth |-> 1]
    /\ stripReq = NoRequest

strip_scroll ==
    /\ StripOnly
    /\ stripReq' = scrollLinkIntoStrip(layout)
    /\ UNCHANGED layout

strip_scroll_bundled ==
    /\ StripOnly
    /\ stripReq' = scrollLinkIntoStripBundled(layout)
    /\ UNCHANGED layout

StripNext ==
    \/ strip_scroll
    \/ strip_scroll_bundled

----------------------------------------------------------------------------
\* AccordionController

AccIdleOp == [kind |-> "none", item |-> 0, logged |-> {}]

AccInit ==
    /\ accItems \in 0..MaxItems
    /\ accActive \in SUBSET (1..accItems)
    /\ accMarkup = accActive
    /\ accInited = FALSE
    /\ lastAcc = AccIdleOp

AccIdle ==
    /\ accItems = 0
    /\ accActive = {}
    /\ accMarkup = {}
    /\ accInited = FALSE
    /\ lastAcc = AccIdleOp

\* init()
acc_init ==
    /\ AccOnly
    /\ ~accInited
    /\ accInited' = TRUE
    /\ lastAcc' = [AccIdleOp EXCEPT !.kind = "init",
                      !.logged = IF accItems = 0
                                 THEN {Diag("No accordion-item elements found.", "")}
                                 ELSE {}]
    /\ UNCHANGED <<accItems, accActive, accMarkup>>

\* the items a mouseenter on `item` leaves active:
\* items.forEach(i => i.classList.remove('is-active')); item.classList.add('is-active')
mouseenterKeepOthers(item) == accActive \cup {item}

mouseenter(item) == (accActive \ (1..accItems)) \cup {item}

\* item.classList.remove('is-active')
mouseleave(item) == accActive \ {item}

acc_mouseenter(item) ==
    /\ AccOnly
    /\ accInited
    /\ item \in 1..accItems
    /\ accActive' = mouseenter(item)
    /\ lastAcc' = [AccIdleOp EXCEPT !.kind = "mouseenter", !.item = item]
    /\ UNCHANGED <<accItems, accMarkup, accInited>>

acc_mouseleave(item) ==
    /\ AccOnly
    /\ accInited
    /\ item \in 1..accItems
    /\ accActive' = mouseleave(item)
    /\ lastAcc' = [AccIdleOp EXCEPT !.kind = "mouseleave", !.item = item]
    /\ UNCHANGED <<accItems, accMarkup, accInited>>

AccNext ==
    \/ acc_init
    \/ \E item \in 1..MaxItems : acc_mouseenter(item)
    \/ \E item \in 1..MaxItems : acc_mouseleave(item)

----------------------------------------------------------------------------
\* GalleryController: constants and the DOM

GALLERY_CONFIGS ==
    << [trigger |-> "image-gallery",
        imageAttr |-> "hidden-main-gallery-images",
        containerClass |-> ".hidden-main-gallery-collection"],
       [trigger |-> "community-gallery",
        imageAttr |-> "hidden-community-gallery-images",
        containerClass |-> ".hidden-community-gallery-collection"] >>

Configs == {GALLERY_CONFIGS[k] : k \in DOMAIN GALLERY_CONFIGS}
ContainerClasses == {c.containerClass : c \in Configs}
Triggers == {c.trigger : c \in Configs}
ImageAttrs == {c.imageAttr : c \in Configs}

NoOverlay == 0

\* new Map()
EmptyMap == [t \in {} |-> <<>>]

ConfigOfContainer(c) == CHOOSE g \in Configs : g.containerClass = c

Range(seq) == {seq[k] : k \in DOMAIN seq}

\* An img node is named by its container and its position inside it; the
\* containers follow each other in the document in the order of the configs.
\* document.querySelectorAll(`img[dev-target="${attr}"]`): every img of the
\* document carrying attr, in document order.
RECURSIVE QueryFrom(_, _, _)
QueryFrom(imgs, attr, k) ==
    IF k > Len(GALLERY_CONFIGS) THEN <<>>
    ELSE LET c == GALLERY_CONFIGS[k].containerClass
             inside == imgs[c]
             hits == SelectSeq([p \in DOMAIN inside |-> <<c, p>>],
                               LAMBDA n : inside[n[2]] = attr)
         IN  hits \o QueryFrom(imgs, attr, k + 1)

\* every img of the document, whatever attribute it carries
querySelectorAllAnyImg(imgs, config) ==
    [p \in DOMAIN imgs[GALLERY_CONFIGS[1].containerClass] |->
        <<GALLERY_CONFIGS[1].containerClass, p>>]
    \o [p \in DOMAIN imgs[GALLERY_CONFIGS[2].containerClass] |->
          <<GALLERY_CONFIGS[2].containerClass, p>>]

querySelectorAllImg(imgs, config) == QueryFrom(imgs, config.imageAttr, 1)

TotalImgs(imgs) ==
    Len(imgs[GALLERY_CONFIGS[1].containerClass]) + Len(imgs[GALLERY_CONFIGS[2].containerClass])

\* this.caches.get(trigger) ?? []
CacheGetPlaceholder(trigger) ==
    IF trigger \in DOMAIN caches /\ caches[trigger] # <<>> THEN caches[trigger]
    ELSE << <<GALLERY_CONFIGS[1].containerClass, 1>> >>

CacheGet(trigger) == IF trigger \in DOMAIN caches THEN caches[trigger] ELSE <<>>

GalIdleOp == [kind |-> "none", config |-> 0, overlay |-> NoOverlay,
              built |-> NoOverlay, appended |-> 0, attr |-> "",
              logged |-> {}, degraded |-> {}]

NotShown == [id |-> NoOverlay, imgs |-> <<>>, reopened |-> FALSE]

UserCloses == {"escape", "button", "backdrop"}

----------------------------------------------------------------------------
\* GalleryController: methods

\* refresh of observeImages(config), run on a document holding imgs:
\* this.caches.set(config.trigger, Array.from(document.querySelectorAll(...)))
refreshAll(imgs, config) ==
    [t \in DOMAIN caches |->
        querySelectorAllImg(imgs, CHOOSE g \in Configs : g.trigger = t)]

refresh(imgs, config) ==
    [caches EXCEPT ![config.trigger] = querySelectorAllImg(imgs, config)]

\* close(): the overlay elements after it
close(by) ==
    IF overlay = NoOverlay THEN overlays
    ELSE [overlays EXCEPT ![overlay].isOpen = FALSE,
                          ![overlay].transitioning = @ \/ overlays[overlay].isOpen,
                          ![overlay].listeners = @ + 1,
                          ![overlay].userClosed = @ \/ by \in UserCloses]

\* close(): document.body.style.overflow after it
closeOverflow == IF overlay = NoOverlay THEN bodyOverflow ELSE ""

\* close() registers one more transitionend listener on a live overlay
CanClose ==
    IF overlay = NoOverlay THEN TRUE ELSE overlays[overlay].listeners < MaxListeners

\* the overlay element open(imgs, 0) builds and appends to the body
NewOverlayFirstOnly(imgs) ==
    [inDoc |-> TRUE, isOpen |-> FALSE, slides |-> <<imgs[1]>>, thumbs |-> <<imgs[1]>>,
     initialSlide |-> 0, listeners |-> 0, transitioning |-> FALSE,
     mainAlive |-> TRUE, thumbsAlive |-> TRUE, userClosed |-> FALSE]

NewOverlay(imgs) ==
    [inDoc |-> TRUE, isOpen |-> FALSE, slides |-> imgs, thumbs |-> imgs,
     initialSlide |-> 0, listeners |-> 0, transitioning |-> FALSE,
     mainAlive |-> TRUE, thumbsAlive |-> TRUE, userClosed |-> FALSE]

\* onTransitionEnd, the listener close() registers: the overlay elements after it
onTransitionEndOverlays(ovs) ==
    LET a == IF thumbsSwiper # NoOverlay
             THEN [ovs EXCEPT ![thumbsSwiper].thumbsAlive = FALSE] ELSE ovs
        b == IF swiper # NoOverlay
             THEN [a EXCEPT ![swiper].mainAlive = FALSE] ELSE a
    IN  IF overlay # NoOverlay THEN [b EXCEPT ![overlay].inDoc = FALSE] ELSE b

----------------------------------------------------------------------------
\* GalleryController: initial state (after construction, before init())

GalInit ==
    /\ domContainers \in {ContainerClasses,
                          ContainerClasses \ {GALLERY_CONFIGS[1].containerClass}}
    /\ domTriggers \in {Triggers, Triggers \ {GALLERY_CONFIGS[2].trigger}}
    /\ domImgs = [c \in ContainerClasses |-> <<>>]
    /\ overlays = <<>>
    /\ bodyOverflow = ""
    /\ overlay = NoOverlay
    /\ swiper = NoOverlay
    /\ thumbsSwiper = NoOverlay
    /\ caches = EmptyMap
    /\ observers = <<>>
    /\ galInited = FALSE
    /\ galFrames = 0
    /\ shown = NotShown
    /\ lastGal = GalIdleOp

GalIdle ==
    /\ domContainers = ContainerClasses
    /\ domTriggers = Triggers
    /\ domImgs = [c \in ContainerClasses |-> <<>>]
    /\ overlays = <<>>
    /\ bodyOverflow = ""
    /\ overlay = NoOverlay
    /\ swiper = NoOverlay
    /\ thumbsSwiper = NoOverlay
    /\ caches = EmptyMap
    /\ observers = <<>>
    /\ galInited = FALSE
    /\ galFrames = 0
    /\ shown = NotShown
    /\ lastGal = GalIdleOp

----------------------------------------------------------------------------
\* GalleryController: actions

\* init(): per config seed the cache, observe the container, bind the
\* triggers; then register the keydown listener.
gal_init ==
    /\ GalOnly
    /\ ~galInited
    /\ galInited' = TRUE
    /\ caches' = [t \in Triggers |->
                    querySelectorAllImg(domImgs, CHOOSE g \in Configs : g.trigger = t)]
    /\ observers' = SelectSeq([k \in DOMAIN GALLERY_CONFIGS |->
                                 GALLERY_CONFIGS[k].containerClass],
                              LAMBDA c : c \in domContainers)
    /\ lastGal' = [GalIdleOp EXCEPT !.kind = "init",
           !.logged = {Diag("container not found.", c) :
                          c \in ContainerClasses \ domContainers},
           !.degraded = {Diag("container not found.", c) :
                            c \in ContainerClasses \ domContainers}
                        \cup {Diag("no trigger element", t) : t \in Triggers \ domTriggers}]
    /\ UNCHANGED <<domContainers, domTriggers, domImgs, overlays, bodyOverflow,
                   overlay, swiper, thumbsSwiper, galFrames, shown>>

\* The CMS appends `count` img nodes carrying `attr` under container c; the
\* MutationObserver of c, if one is connected, runs refresh.
gal_append(c, count, attr) ==
    /\ GalOnly
    /\ c \in domContainers
    /\ count >= 1
    /\ TotalImgs(domImgs) + count <= MaxImgs
    /\ LET imgs == [domImgs EXCEPT ![c] = @ \o [n \in 1..count |-> attr]]
           config == ConfigOfContainer(c)
       IN  /\ domImgs' = imgs
           /\ caches' = IF c \in Range(observers)
                         THEN refresh(imgs, config)
                         ELSE caches
           /\ lastGal' = [GalIdleOp EXCEPT !.kind = "mutation",
                             !.config = CHOOSE k \in DOMAIN GALLERY_CONFIGS :
                                           GALLERY_CONFIGS[k] = config,
                             !.appended = count, !.attr = attr]
    /\ UNCHANGED <<domContainers, domTriggers, overlays, bodyOverflow, overlay,
                   swiper, thumbsSwiper, observers, galInited, galFrames, shown>>

\* open(imgs, 0): close(), build the overlay and its slides, append it, lock
\* the page scroll, build the two sliders, schedule the frame callback.
open(imgs) ==
    /\ Len(overlays) < MaxOverlays
    /\ CanClose
    /\ overlays' = Append(close("open"), NewOverlay(imgs))
    /\ bodyOverflow' = "hidden"
    /\ overlay' = Len(overlays) + 1
    /\ thumbsSwiper' = Len(overlays) + 1
    /\ swiper' = Len(overlays) + 1
    /\ galFrames' = galFrames + 1
    /\ shown' = [id |-> Len(overlays) + 1, imgs |-> imgs,
                 reopened |-> overlay # NoOverlay]

\* the click listener bindTrigger attaches to the triggers of config k
gal_click(k, onImg) ==
    /\ GalOnly
    /\ galInited
    /\ GALLERY_CONFIGS[k].trigger \in domTriggers
    /\ LET trigger == GALLERY_CONFIGS[k].trigger
           imgs == CacheGet(trigger)
       IN  IF ~onImg
           THEN /\ lastGal' = [GalIdleOp EXCEPT !.kind = "click", !.config = k]
                /\ UNCHANGED <<overlays, bodyOverflow, overlay, swiper, thumbsSwiper,
                               galFrames, shown>>
           ELSE IF Len(imgs) = 0
           THEN /\ lastGal' = [GalIdleOp EXCEPT !.kind = "click", !.config = k,
                                  !.logged = {Diag("No images cached for", trigger)},
                                  !.degraded = {Diag("No images cached for", trigger)}]
                /\ UNCHANGED <<overlays, bodyOverflow, overlay, swiper, thumbsSwiper,
                               galFrames, shown>>
           ELSE /\ open(imgs)
                /\ lastGal' = [GalIdleOp EXCEPT !.kind = "open", !.config = k,
                                  !.overlay = overlay,
                                  !.built = Len(overlays) + 1]
    /\ UNCHANGED <<domContainers, domTriggers, domImgs, caches, observers, galInited>>

\* a close request: the keydown listener on Escape ("escape"), the click
\* listener of the close button of an overlay in the document ("button")
CloseRequest(by) ==
    /\ CanClose
    /\ overlays' = close(by)
    /\ bodyOverflow' = closeOverflow
    /\ shown' = IF overlay # NoOverlay THEN NotShown ELSE shown
    /\ lastGal' = [GalIdleOp EXCEPT !.kind = by, !.overlay = overlay]

gal_escape ==
    /\ GalOnly
    /\ galInited
    /\ CloseRequest("escape")
    /\ UNCHANGED <<domContainers, domTriggers, domImgs, overlay, swiper, thumbsSwiper,
                   caches, observers, galInited, galFrames>>

gal_close_button(x) ==
    /\ GalOnly
    /\ x \in DOMAIN overlays
    /\ overlays[x].inDoc
    /\ CloseRequest("button")
    /\ UNCHANGED <<domContainers, domTriggers, domImgs, overlay, swiper, thumbsSwiper,
                   caches, observers, galInited, galFrames>>

\* the click listener of overlay x, for a click on the overlay element itself:
\* if (e.target === this.overlay) this.close()
gal_backdrop(x) ==
    /\ GalOnly
    /\ x \in DOMAIN overlays
    /\ overlays[x].inDoc
    /\ IF x = overlay
       THEN CloseRequest("backdrop")
       ELSE /\ lastGal' = [GalIdleOp EXCEPT !.kind = "backdrop"]
            /\ UNCHANGED <<overlays, bodyOverflow, shown>>
    /\ UNCHANGED <<domContainers, domTriggers, domImgs, overlay, swiper, thumbsSwiper,
                   caches, observers, galInited, galFrames>>

\* a requestAnimationFrame callback of open(): this.overlay?.classList.add('is-open')
gal_frame ==
    /\ GalOnly
    /\ galFrames > 0
    /\ galFrames' = galFrames - 1
    /\ overlays' = IF overlay # NoOverlay
                   THEN [overlays EXCEPT ![overlay].isOpen = TRUE,
                            ![overlay].transitioning = @ \/ ~overlays[overlay].isOpen]
                   ELSE overlays
    /\ lastGal' = [GalIdleOp EXCEPT !.kind = "frame", !.overlay = overlay]
    /\ UNCHANGED <<domContainers, domTriggers, domImgs, bodyOverflow, overlay, swiper,
                   thumbsSwiper, caches, observers, galInited, shown>>

\* the transition running on overlay x ends: transitionend is dispatched on
\* x and every listener close() registered on it runs once
gal_transitionend(x) ==
    /\ GalOnly
    /\ x \in DOMAIN overlays
    /\ overlays[x].inDoc
    /\ overlays[x].transitioning
    /\ IF overlays[x].listeners > 0
       THEN /\ overlays' = [onTransitionEndOverlays(overlays) EXCEPT
                               ![x].listeners = 0, ![x].transitioning = FALSE]
            /\ thumbsSwiper' = NoOverlay
            /\ swiper' = NoOverlay
            /\ overlay' = NoOverlay
       ELSE /\ overlays' = [overlays EXCEPT ![x].transitioning = FALSE]
            /\ UNCHANGED <<thumbsSwiper, swiper, overlay>>
    /\ lastGal' = [GalIdleOp EXCEPT !.kind = "transitionend", !.overlay = x]
    /\ UNCHANGED <<domContainers, domTriggers, domImgs, bodyOverflow, caches,
                   observers, galInited, galFrames, shown>>

\* destroy()
gal_destroy ==
    /\ GalOnly
    /\ observers' = <<>>
    /\ CloseRequest("destroy")
    /\ UNCHANGED <<domContainers, domTriggers, domImgs, overlay, swiper, thumbsSwiper,
                   caches, galInited, galFrames>>

GalNext ==
    \/ gal_init
    \/ \E c \in ContainerClasses, count \in 1..MaxImgs, attr \in ImageAttrs :
          gal_append(c, count, attr)
    \/ \E k \in DOMAIN GALLERY_CONFIGS, onImg \in BOOLEAN : gal_click(k, onImg)
    \/ gal_escape
    \/ \E x \in 1..MaxOverlays : gal_close_button(x)
    \/ \E x \in 1..MaxOverlays : gal_backdrop(x)
    \/ gal_frame
    \/ \E x \in 1..MaxOverlays : gal_transitionend(x)
    \/ gal_destroy

----------------------------------------------------------------------------
\* Specifications: one per controller; the other controllers stay idle.

InitNav == NavInit /\ StripIdle /\ AccIdle /\ GalIdle
SpecNav == InitNav /\ [][NavNext]_vars

InitStrip == StripInit /\ NavIdle /\ AccIdle /\ GalIdle
SpecStrip == InitStrip /\ [][StripNext]_vars

InitAccordion == AccInit /\ NavIdle /\ StripIdle /\ GalIdle
SpecAccordion == InitAccordion /\ [][AccNext]_vars

InitGallery == GalInit /\ NavIdle /\ StripIdle /\ AccIdle
SpecGallery == InitGallery /\ [][GalNext]_vars

\* The browser runs every scheduled animation-frame callback, and a
\* transition that runs on an element of the document ends.
SpecGalleryFair ==
    /\ SpecGallery
    /\ WF_vars(gal_frame)
    /\ \A x \in 1..MaxOverlays : WF_vars(gal_transitionend(x))

----------------------------------------------------------------------------
\* Properties of StickyNavController (checked under SpecNav)

ActiveLinks == {i \in DOMAIN linkActive : linkActive[i]}

OrderIndex(t) == CHOOSE i \in DOMAIN sectionOrder : sectionOrder[i] = t

\* the member of a non-empty set of ordered targets with the lowest index
LowestInOrder(S) == CHOOSE t \in S : \A u \in S : OrderIndex(t) <= OrderIndex(u)

DistinctTargets == \A i, j \in DOMAIN domLinks : domLinks[i] = domLinks[j] => i = j

\* C1: right after the observer callback has processed a batch that leaves
\* the visible set non-empty, the target handed to setActiveLink is the
\* member of the visible set with the lowest index in sectionOrder, and the
\* active links are exactly the links carrying that target.
C1_LowestVisibleApplied ==
    (lastNav.kind = "batch" /\ visibleSections # {}) =>
        /\ lastNav.applied = LowestInOrder(visibleSections)
        /\ \A i \in DOMAIN linkActive :
              linkActive[i] <=> domLinks[i] = LowestInOrder(visibleSections)

\* floor-plans and browse-homes both intersect, overview does not
C1_Witness ==
    /\ lastNav.kind = "batch"
    /\ visibleSections = {"floor-plans", "browse-homes"}
    /\ lastNav.applied = "floor-plans"
    /\ \E i \in DOMAIN linkActive : linkActive[i] /\ domLinks[i] = "floor-plans"

\* C4: a batch that leaves the visible set empty changes no link's active flag.
C4_EmptyBatchKeepsFlags ==
    [][(lastNav'.kind = "batch" /\ visibleSections' = {}) => linkActive' = linkActive]_vars

\* a batch has emptied the visible set and a link is still active
C4_Witness ==
    /\ lastNav.kind = "batch"
    /\ visibleSections = {}
    /\ ~navFrame
    /\ ActiveLinks # {}

\* C5: right after the click handler of a link whose target maps to a
\* section of the document, that link is active and the scroll has only
\* been requested.
C5_ClickMarksActive ==
    \A i \in DOMAIN linkActive :
        (lastNav.kind = "click" /\ lastNav.link = i
           /\ SectionMapLookup(domLinks[i]) \in domSections) =>
            /\ linkActive[i]
            /\ lastNav.scrolledTo = SectionMapLookup(domLinks[i])

\* the click came before the post-paint step and before any batch
C5_Witness ==
    /\ lastNav.kind = "click"
    /\ lastNav.link = 2
    /\ lastNav.scrolledTo = "floor-plans-section"
    /\ navFrame
    /\ visibleSections = {}
    /\ linkActive = <<FALSE, TRUE>>

\* C6 as stated: after init() at most one link carries the active flag.
C6_AtMostOneActive == navInited => Cardinality(ActiveLinks) <= 1

\* C6 amended: when the links' targets are pairwise distinct, no handler
\* (init, click, batch, post-paint step, destroy) takes a state with at most
\* one active link to a state with more than one; so at most one link is
\* active in every state when the markup marks at most one.
C6_AtMostOneActiveKept ==
    [][(DistinctTargets /\ Cardinality(ActiveLinks) <= 1)
          => Cardinality(ActiveLinks') <= 1]_vars

\* two links with distinct targets; a click has made the second one the
\* only active link after the post-paint step had marked the first
C6_Witness ==
    /\ navInited
    /\ DistinctTargets
    /\ Len(domLinks) = 2
    /\ ~navFrame
    /\ lastNav.kind = "click"
    /\ linkActive = <<FALSE, TRUE>>

\* C10: every failure or degradation path the last handler took wrote its
\* diagnostic.
C10_FailurePathsLogged == lastNav.degraded \subseteq lastNav.logged

----------------------------------------------------------------------------
\* Properties of scrollLinkIntoStrip (checked under SpecStrip)

\* C8: the position asked of strip.scrollTo lies in [0, scrollWidth - offsetWidth].
C8_ScrollWithinStrip ==
    stripReq.called =>
        /\ 0 <= stripReq.left2
        /\ stripReq.left2 <= 2 * maxScroll(layout)

----------------------------------------------------------------------------
\* Properties of AccordionController (checked under SpecAccordion)

\* C9: right after a mouseenter on an item, that item is the only active
\* one; and when the markup has at most one active item, at most one item
\* is active in every state.
C9_HoverSingleActive ==
    /\ lastAcc.kind = "mouseenter" => accActive = {lastAcc.item}
    /\ Cardinality(accMarkup) <= 1 => Cardinality(accActive) <= 1

\* item 1 was active in the markup, item 2 has been hovered
C9_Witness ==
    /\ accMarkup = {1}
    /\ lastAcc.kind = "mouseenter"
    /\ lastAcc.item = 2
    /\ accActive = {2}

----------------------------------------------------------------------------
\* Properties of GalleryController (checked under SpecGallery)

InDocument == {x \in DOMAIN overlays : overlays[x].inDoc}

\* no frame callback is pending and no overlay of the document is in transition
Quiescent ==
    /\ galFrames = 0
    /\ \A x \in InDocument : ~overlays[x].transitioning

\* C2: once open() has run while an overlay was already open, and every
\* pending frame and transition-end callback has run, exactly one overlay
\* element is in the document: the one built last, holding the slides of
\* the image set that was requested.
C2_ReopenLeavesOneOverlay ==
    (shown.id # NoOverlay /\ shown.reopened /\ Quiescent)
        => /\ InDocument = {shown.id}
           /\ overlays[shown.id].slides = shown.imgs

\* C3: an overlay closed by Escape, its close button or a backdrop click
\* loses its sliders and leaves the document only in a step that is that
\* overlay's own transition-end.
C3_TeardownAfterOwnTransitionEnd ==
    [][\A x \in DOMAIN overlays :
          (/\ overlays[x].userClosed
           /\ \/ overlays[x].inDoc /\ ~overlays'[x].inDoc
              \/ overlays[x].mainAlive /\ ~overlays'[x].mainAlive
              \/ overlays[x].thumbsAlive /\ ~overlays'[x].thumbsAlive)
          => (lastGal'.kind = "transitionend" /\ lastGal'.overlay = x)]_vars

\* the gallery whose container received the last appended nodes
MutatedConfig == GALLERY_CONFIGS[lastGal'.config]

Watched(config) == config.containerClass \in Range(observers)

InSync(config) ==
    /\ config.trigger \in DOMAIN caches
    /\ caches[config.trigger] = querySelectorAllImg(domImgs, config)

\* C7 as stated: whenever img nodes are appended under a watched container
\* after init(), that gallery's cache grows by the number of nodes appended.
C7_CacheGrowsByAppended ==
    [][(lastGal'.kind = "mutation" /\ galInited /\ Watched(MutatedConfig))
          => Len(caches'[MutatedConfig.trigger])
                = Len(caches[MutatedConfig.trigger]) + lastGal'.appended]_vars

\* C7 amended: whenever img nodes are appended under a watched container
\* whose gallery's cache equals the document-wide query result, the cache
\* grows by the number of appended nodes that carry that gallery's image
\* attribute: by all of them when they carry it, by none otherwise; the
\* controller is not re-initialised.
C7_CacheGrowsByMatching ==
    [][(lastGal'.kind = "mutation" /\ galInited /\ Watched(MutatedConfig)
          /\ InSync(MutatedConfig))
          => /\ Len(caches'[MutatedConfig.trigger])
                   = Len(caches[MutatedConfig.trigger])
                     + (IF lastGal'.attr = MutatedConfig.imageAttr
                        THEN lastGal'.appended ELSE 0)
             /\ galInited' /\ observers' = observers]_vars

\* C7 witness: two img nodes carrying the main gallery's attribute were
\* appended under its watched container and its cache went from 0 to 2.
C7_Witness ==
    /\ galInited
    /\ lastGal.kind = "mutation"
    /\ lastGal.config = 1
    /\ lastGal.appended = 2
    /\ lastGal.attr = GALLERY_CONFIGS[1].imageAttr
    /\ Watched(GALLERY_CONFIGS[1])
    /\ Len(caches[GALLERY_CONFIGS[1].trigger]) = 2

\* a click on an image inside a trigger: it either opens an overlay or
\* reports the empty cache
ImageClicked ==
    \/ lastGal'.kind = "open"
    \/ lastGal'.kind = "click" /\ lastGal'.degraded # {}

\* C11: a click on an image inside a trigger whose cache is empty builds no
\* overlay and no slider, leaves every overlay element and the
\* controller's references as they were, schedules no frame callback and
\* leaves the page scroll lock unchanged.
C11_EmptyCacheClickNoOp ==
    [][(ImageClicked /\ caches[GALLERY_CONFIGS[lastGal'.config].trigger] = <<>>)
          => UNCHANGED <<overlays, bodyOverflow, overlay, swiper, thumbsSwiper,
                         galFrames>>]_vars

\* C11 witness: the community gallery's empty cache was reported by a click
\* while the overlay of the main gallery was open and the page scroll locked.
C11_Witness ==
    /\ lastGal.kind = "click"
    /\ lastGal.config = 2
    /\ lastGal.degraded # {}
    /\ overlay # NoOverlay
    /\ overlays[overlay].isOpen
    /\ bodyOverflow = "hidden"

\* C13: a mutation of one gallery's container leaves the cache entry of
\* every other configured gallery unchanged.
C13_OtherCachesUntouched ==
    [][(lastGal'.kind = "mutation" /\ galInited)
          => \A t \in Triggers \ {MutatedConfig.trigger} : caches'[t] = caches[t]]_vars

\* C13 witness: an img of the main gallery was appended under its watched
\* container and entered its cache while the community gallery's cache
\* held one image.
C13_Witness ==
    /\ galInited
    /\ lastGal.kind = "mutation"
    /\ lastGal.config = 1
    /\ lastGal.attr = GALLERY_CONFIGS[1].imageAttr
    /\ Watched(GALLERY_CONFIGS[1])
    /\ Len(caches[GALLERY_CONFIGS[1].trigger]) = 1
    /\ Len(caches[GALLERY_CONFIGS[2].trigger]) = 1

\* C19: open() builds one main slide and one thumbnail slide per image of
\* the clicked gallery's cache as it is at click time, in cache order, and
\* starts at slide 0; no later step changes the slides, the thumbnails or
\* the starting slide of an overlay already built.
C19_SlidesPerCachedImage ==
    [][/\ lastGal'.kind = "open"
          => LET imgs == caches[GALLERY_CONFIGS[lastGal'.config].trigger]
                 built == overlays'[lastGal'.built]
             IN  /\ Len(overlays') = Len(overlays) + 1
                 /\ lastGal'.built = Len(overlays')
                 /\ built.slides = imgs
                 /\ built.thumbs = imgs
                 /\ built.initialSlide = 0
       /\ \A x \in DOMAIN overlays :
             /\ overlays'[x].slides = overlays[x].slides
             /\ overlays'[x].thumbs = overlays[x].thumbs
             /\ overlays'[x].initialSlide = overlays[x].initialSlide]_vars

\* C19 witness: the main gallery's overlay is open with the one slide its
\* cache held at click time, and a refresh has since grown the cache to two.
C19_Witness ==
    /\ lastGal.kind = "mutation"
    /\ overlay # NoOverlay
    /\ overlays[overlay].isOpen
    /\ Len(overlays[overlay].slides) = 1
    /\ Len(caches[GALLERY_CONFIGS[1].trigger]) = 2
    /\ overlays[overlay].slides[1] = caches[GALLERY_CONFIGS[1].trigger][1]
    /\ overlays[overlay].thumbs = overlays[overlay].slides

\* C20: the transition-end handler that runs on overlay X changes no other
\* overlay (sliders, presence in the document) and does not clear a
\* controller reference that names another overlay.
C20_TransitionEndTearsDownOnlyOwn ==
    [][lastGal'.kind = "transitionend"
          => /\ \A y \in DOMAIN overlays \ {lastGal'.overlay} :
                   overlays'[y] = overlays[y]
             /\ overlay \notin {NoOverlay, lastGal'.overlay} => overlay' = overlay
             /\ swiper \notin {NoOverlay, lastGal'.overlay} => swiper' = swiper
             /\ thumbsSwiper \notin {NoOverlay, lastGal'.overlay}
                   => thumbsSwiper' = thumbsSwiper]_vars

----------------------------------------------------------------------------
\* Further properties of StickyNavController (checked under SpecNav)

\* the names of sectionOrder that have an entry in sectionMap
DeclaredTargets ==
    {sectionOrder[i] : i \in DOMAIN sectionOrder} \cap DOMAIN sectionMap

\* element ids an intersection entry could carry: the mapped sections, an
\* element the table does not know, and an element without id
AnyEntries == [id : SectionIds \cup {"footer-section", ""}, isIntersecting : BOOLEAN]

\* C12: every member of visibleSections is a name of sectionOrder with an
\* entry in sectionMap, and the observer callback keeps it so whatever
\* element ids the entries of the next batch carry.
C12_VisibleSubsetOfDeclared ==
    /\ visibleSections \subseteq DeclaredTargets
    /\ \A entries \in SeqsUpTo(AnyEntries, MaxBatch) :
          ApplyEntries(visibleSections, entries) \subseteq DeclaredTargets

\* C12 witness: a batch has put two targets in the visible set.
C12_Witness ==
    /\ lastNav.kind = "batch"
    /\ Cardinality(visibleSections) = 2

\* C14: after destroy() the watcher is disconnected and absent and the
\* visible set is empty, and in that state a further destroy() changes no
\* variable, whether or not init() was ever called.
C14_DestroyIdempotent ==
    lastNav.kind = "destroy"
        => /\ observer = NoObserver
           /\ visibleSections = {}
           /\ ~ENABLED (nav_destroy /\ vars' # vars)

\* C14 witness: destroy() has run after init() and after the frame callback.
C14_Witness ==
    /\ lastNav.kind = "destroy"
    /\ navInited
    /\ Len(links) > 0
    /\ ~navFrame
    /\ observer = NoObserver
    /\ visibleSections = {}
    /\ ENABLED nav_destroy

\* C15: the watcher set up by init() observes every section that has an
\* entry in sectionMap and is present in the document.
C15_ObservesEveryMappedSection ==
    observer.live => observer.targets = SectionIds \cap domSections

\* C16: a batch is applied as a whole: the target handed to setActiveLink
\* is the one found in the visible set as it is after the last entry, it
\* is applied once, and the link flags after the batch are those of that
\* target (unchanged when there is none).
C16_BatchAppliedAsAWhole ==
    [][lastNav'.kind = "batch"
          => LET target == ActiveTarget(visibleSections')
             IN  /\ lastNav'.applied = target
                 /\ linkActive' = IF Truthy(target) THEN setActiveLink(target)
                                                     ELSE linkActive]_vars

\* C16 witness: a batch of two entries has put two sections in the visible
\* set and the first of them in sectionOrder was applied.
C16_Witness ==
    /\ lastNav.kind = "batch"
    /\ lastNav.batch = 2
    /\ visibleSections = {"overview", "floor-plans"}
    /\ lastNav.applied = "overview"
    /\ \E i \in DOMAIN domLinks : domLinks[i] = "overview" /\ linkActive[i]

\* the click of the last step was on a link whose target has no table entry
\* or whose section is absent from the document
ClickedDeadLink ==
    /\ lastNav'.kind = "click"
    /\ LET sectionId == SectionMapLookup(domLinks[lastNav'.link])
       IN  ~Truthy(sectionId) \/ sectionId \notin domSections

\* C17: a click on a link whose target is not in the table, or whose
\* section is absent from the document, requests no scroll, changes no
\* link's active flag and leaves the visible set unchanged.
C17_DeadLinkClickChangesNothing ==
    [][ClickedDeadLink
          => /\ lastNav'.scrolledTo = Undefined
             /\ lastNav'.centred = {}
             /\ linkActive' = linkActive
             /\ visibleSections' = visibleSections]_vars

\* C17 witness: the link of the absent floor-plans section was clicked
\* while the other link was active and a section was visible.
C17_Witness ==
    /\ lastNav.kind = "click"
    /\ domLinks[lastNav.link] = "floor-plans"
    /\ "floor-plans-section" \notin domSections
    /\ ~linkActive[lastNav.link]
    /\ ActiveLinks # {}
    /\ visibleSections # {}

\* C18: the frame callback of init() marks the first link carrying the
\* flag when it runs, or the first link when none does; it clears no flag,
\* and when some link is already active it changes no flag at all.
C18_FrameKeepsActivated ==
    [][lastNav'.kind = "frame"
          => /\ \A i \in ActiveLinks : linkActive'[i]
             /\ ActiveLinks # {}
                   => /\ linkActive' = linkActive
                      /\ lastNav'.link = CHOOSE i \in ActiveLinks :
                                             \A j \in ActiveLinks : i <= j
             /\ (ActiveLinks = {} /\ Len(links) > 0)
                   => /\ ActiveLinks' = {links[1]}
                      /\ lastNav'.link = links[1]]_vars

\* C18 witness: between init() and the frame callback a batch activated the
\* second link, and the frame callback found it and left the first alone.
C18_Witness ==
    /\ lastNav.kind = "frame"
    /\ lastNav.link = 2
    /\ domLinks = <<"overview", "floor-plans">>
    /\ visibleSections = {"floor-plans"}
    /\ linkActive = <<FALSE, TRUE>>

----------------------------------------------------------------------------
\* Further properties of GalleryController

\* C21: whenever the controller holds no overlay, the page scroll is not
\* locked.
C21_NoOverlayScrollUnlocked ==
    overlay = NoOverlay => bodyOverflow # "hidden"

\* C22: an overlay on which a close has been requested (its transition-end
\* listener is registered and has not run) does not carry the open mark
\* after any later step.
C22_ClosedNeverOpenAgain ==
    [][\A x \in DOMAIN overlays :
          overlays[x].listeners > 0 => ~overlays'[x].isOpen]_vars

\* C23: every overlay of the document on which a close has been requested
\* is eventually removed from the document (checked under SpecGalleryFair).
C23_ClosedEventuallyRemoved ==
    \A x \in 1..MaxOverlays :
        (x \in DOMAIN overlays /\ overlays[x].inDoc /\ overlays[x].listeners > 0)
            ~> (x \in DOMAIN overlays /\ ~overlays[x].inDoc)

\* C24: once the frame callback of init() has run, at least one nav link
\* is active in every later state (checked under SpecNav).
C24_SomeLinkStaysActive ==
    (navInited /\ Len(links) > 0 /\ ~navFrame) => ActiveLinks # {}

====
